---- MODULE Spec2Model ----
(***************************************************************************)
(* Order lifecycle and entitlement engine of the Kumar Visuals backend:    *)
(* order creation, settlement (markOrderPaidAndGrantAccess), the Razorpay  *)
(* webhook, client-verify, admin refund and the idle-order reaper, over a  *)
(* MongoDB store whose multi-document transactions give snapshot reads and *)
(* fail a write with a WriteConflict when the document was changed since   *)
(* the snapshot or is held by another open transaction.  Every handler is  *)
(* cut at its awaits on the store or the gateway.                          *)
(***************************************************************************)
EXTENDS Integers, Sequences, FiniteSets, TLC

(* ------------------------------ bounds -------------------------------- *)
(* MaxOrders orders at most, MaxOrdersAll when every operation is enabled;  *)
(* NumProcs requests in flight; the clock stops at MaxTime; payments are    *)
(* 1..MaxPay; a refund call fails at most MaxRefundErrors times per order;  *)
(* the promo may be used UsageLimit times; a membership is bought for up to *)
(* MaxMonths months; an admin extends a membership up to MaxExpiry.        *)
MaxOrders == 2
MaxOrdersAll == 1
NumProcs == 2
MaxTime == 1
MaxPay == 2
MaxRefundErrors == 1
UsageLimit == 1
MaxMonths == 2
MaxExpiry == 4
DownloadLimit == 1

(* ------------------------- program constants -------------------------- *)
(* The clock counts coarse steps: one step is at least the reaper's idle     *)
(* window (2 * 60 * 1000 ms) and stands for one setMonth(+1) of a membership.*)
(* Amounts are in paise, so the MIN_PAYABLE of 1 rupee is 100.  The default  *)
(* extension of adminExtendMembership, 30 days, is one step as well.         *)
TWO_MINUTES == 1
MONTH == 1
MIN_PAYABLE == 100
THIRTY_DAYS == 1

Users == {"u1", "u2"}
Buyers == {"u1"}
Products == {"a", "b"}
Procs == 1..NumProcs
PaymentIds == 1..MaxPay
PlanKeys == {"BASIC"}
PromoCodes == {"SAVE"}
None == "none"
NoTime == -1

OrderStatusEnum == {"PENDING", "PAID", "FAILED", "CANCELLED", "REFUND_INITIATED", "REFUNDED"}
CancelReasonEnum == {"PAYMENT_TIMEOUT", "MIN_PAYABLE_VIOLATION", "USER_CANCELLED",
                     "ADMIN_CANCELLED", "SYSTEM_CANCELLED"}

VARIABLES now, orders, users, promo, procs, out, isRunning, gateway, grants

vars == <<now, orders, users, promo, procs, out, isRunning, gateway, grants>>

(* ------------------------------ helpers ------------------------------- *)
Range(s) == {s[i] : i \in 1..Len(s)}

RECURSIVE SeqFilterOut(_, _)
SeqFilterOut(s, x) ==
  IF s = <<>> THEN <<>>
  ELSE IF Head(s).product = x THEN SeqFilterOut(Tail(s), x)
       ELSE <<Head(s)>> \o SeqFilterOut(Tail(s), x)

Owned(u) == {e.product : e \in Range(u.purchasedProducts)}

OrderIds == 1..Len(orders)

(* catalog: public products and their prices, in paise *)
Price(p) == IF p = "a" THEN 4000 ELSE IF p = "f" THEN 0 ELSE 6000

(* membership plans and their monthly prices: the admin API accepts price >= 0 *)
PlanPrice(k) == IF k = "FREE" THEN 0 ELSE 9900

RECURSIVE SumPrice(_)
SumPrice(s) == IF s = <<>> THEN 0 ELSE Price(Head(s)) + SumPrice(Tail(s))

(* the requests order creation is driven with *)
ItemLists == {<<"a">>, <<"a", "b">>}

(* promo documents the collection can hold: the shape applyPromoCode reads *)
(* (discountType / discountValue) and the shape of promoCodeSchema         *)
LegacyPromo ==
  [discountType |-> "FIXED", discountValue |-> 1000, discountPercent |-> 0,
   discountFlat |-> 0, maxDiscount |-> 0, minOrderAmount |-> 0,
   usageLimit |-> UsageLimit, usedCount |-> 0, isActive |-> TRUE]

PromoDocs ==
  { [discountType |-> "FIXED", discountValue |-> 1000, discountPercent |-> 0,
     discountFlat |-> 0, maxDiscount |-> 0, minOrderAmount |-> 0,
     usageLimit |-> UsageLimit, usedCount |-> 0, isActive |-> TRUE],
    [discountType |-> None, discountValue |-> 0, discountPercent |-> 0,
     discountFlat |-> 1000, maxDiscount |-> 1000, minOrderAmount |-> 0,
     usageLimit |-> UsageLimit, usedCount |-> 0, isActive |-> TRUE] }

NoMembership == [planKey |-> None, status |-> "NONE", expiresAt |-> NoTime]

NewUser == [purchasedProducts |-> <<>>, membership |-> NoMembership,
            downloadsUsed |-> 0, isBanned |-> FALSE, isDeleted |-> FALSE]

NoRaw == [refundErrors |-> 0, refundRequest |-> FALSE, refundCompleted |-> FALSE]

NoDoc == [status |-> None, paymentId |-> 0, paymentRaw |-> NoRaw]

NoOut == [kind |-> None, order |-> 0, resp |-> 0, err |-> None]

IdleProc == [kind |-> "idle", pc |-> "idle", order |-> 0, pid |-> 0, caller |-> None,
             product |-> None, loc |-> NoDoc,
             sUser |-> NewUser, sPromoUsed |-> 0, stale |-> {}, wrote |-> {},
             idx |-> 0, resp |-> 0, err |-> None]

Init ==
  /\ now = 0
  /\ orders = <<>>
  /\ users = [u \in Users |-> NewUser]
  /\ promo = LegacyPromo
  /\ procs = [p \in Procs |-> IdleProc]
  /\ out = NoOut
  /\ isRunning = FALSE
  /\ gateway = [o \in 1..MaxOrders |-> [refundCalls |-> 0, refundsOk |-> 0]]
  /\ grants = [o \in 1..MaxOrders |-> 0]

Finish(pr, resp, err) ==
  [IdleProc EXCEPT !.kind = pr.kind, !.pc = "done", !.order = pr.order,
                   !.resp = resp, !.err = err]

(* a handler that has ended answers in that step and frees its request slot; *)
(* out is the answer given in the step just taken                            *)
Deliver(P) ==
  /\ procs' = [q \in Procs |-> IF P[q].pc = "done" THEN IdleProc ELSE P[q]]
  /\ out' = IF \E q \in Procs : P[q].pc = "done"
            THEN LET q == CHOOSE x \in Procs : P[x].pc = "done"
                 IN [kind |-> P[q].kind, order |-> P[q].order,
                     resp |-> P[q].resp, err |-> P[q].err]
            ELSE NoOut

(* a request is taken by the lowest free slot *)
Free(p) == procs[p].pc = "idle" /\ \A q \in Procs : q < p => procs[q].pc # "idle"

(* ----------------------- pricing and order assembly ------------------- *)
Min(a, b) == IF a < b THEN a ELSE b
Max(a, b) == IF a > b THEN a ELSE b

(* applyPromoCode: amounts in paise, so toFixed(2) is rounding to a paise *)
applyPromoCode(code, subtotal) ==
  IF code = None THEN [ok |-> TRUE, discount |-> 0, code |-> None]
  ELSE IF ~promo.isActive THEN [ok |-> FALSE, discount |-> 0, code |-> None]
  ELSE IF promo.minOrderAmount # 0 /\ subtotal < promo.minOrderAmount
       THEN [ok |-> FALSE, discount |-> 0, code |-> None]
  ELSE LET pct  == (subtotal * promo.discountValue + 50) \div 100
           raw  == IF promo.discountType = "PERCENTAGE"
                   THEN (IF promo.maxDiscount # 0 THEN Min(pct, promo.maxDiscount) ELSE pct)
                   ELSE IF promo.discountType = "FIXED" THEN promo.discountValue
                   ELSE 0
           discount == Min(raw, subtotal)
       IN IF discount <= 0 THEN [ok |-> FALSE, discount |-> 0, code |-> None]
          ELSE [ok |-> TRUE, discount |-> discount, code |-> code]

(* PromoCode.computeDiscount: percent part plus flat part, capped by         *)
(* maxDiscount, Math.floor to a whole rupee (100 paise)                      *)
computeDiscount(subtotal) ==
  IF subtotal <= 0 THEN 0
  ELSE LET pct  == IF promo.discountPercent > 0 THEN subtotal * promo.discountPercent ELSE 0
           flat == IF promo.discountFlat > 0 THEN promo.discountFlat ELSE 0
           sum  == pct + 100 * flat
           cap  == IF promo.maxDiscount > 0 /\ sum > 100 * promo.maxDiscount
                   THEN 100 * promo.maxDiscount ELSE sum
       IN (cap \div 10000) * 100

(* applyPromo (the preview endpoint): promo lookup, isExpired, usage limit, *)
(* subtotal from the products, minimum order, computeDiscount, clamp        *)
applyPromo(code, items) ==
  LET subtotal == SumPrice(items)
      d        == Min(computeDiscount(subtotal), subtotal)
      No(resp, err) == [ok |-> FALSE, resp |-> resp, err |-> err, discountAmount |-> 0]
  IN IF code = None THEN No(400, "InvalidRequest")
     ELSE IF ~promo.isActive THEN No(404, "InvalidPromo")
     ELSE IF promo.usageLimit # 0 /\ promo.usedCount >= promo.usageLimit
          THEN No(400, "PromoExpired")
     ELSE IF promo.minOrderAmount # 0 /\ subtotal < promo.minOrderAmount
          THEN No(400, "MinimumOrderAmount")
     ELSE IF d <= 0 THEN No(400, "PromoDoesNotApply")
     ELSE [ok |-> TRUE, resp |-> 200, err |-> None, discountAmount |-> d]

(* the preview has no side effects: it only answers *)
ApplyPromo(code, items) ==
  /\ \A p \in Procs : procs[p].pc = "idle"
  /\ LET r == applyPromo(code, items)
     IN out' = [kind |-> "preview", order |-> 0, resp |-> r.resp, err |-> r.err]
  /\ UNCHANGED <<now, orders, users, promo, procs, isRunning, gateway, grants>>

NewOrder(u, items, plan, months, subtotal, fee, total, code, discount, linked, id) ==
  [user |-> u, items |-> items, membershipPlanKey |-> plan, membershipMonths |-> months,
   subtotal |-> subtotal, tax |-> 0, convenienceFee |-> fee, total |-> total,
   promoCode |-> code, promoDiscount |-> discount,
   status |-> "PENDING", cancelReason |-> None,
   paymentOrderId |-> IF linked THEN id ELSE 0,
   paymentId |-> 0, paymentSignature |-> None, completedAt |-> NoTime,
   createdAt |-> now, paymentRaw |-> NoRaw]

createPendingOrderForUser_noFee(u, items, code, linked, id) ==
  LET subtotal == SumPrice(items)
      pr       == applyPromoCode(code, subtotal)
      base     == subtotal - pr.discount
      total    == IF base <= 0 THEN 100 ELSE base
  IN NewOrder(u, items, None, 1, subtotal, 0, total, pr.code, pr.discount, linked, id)

(* createPendingOrderForUser: the totals of a product order *)
createPendingOrderForUser(u, items, code, linked, id) ==
  LET subtotal == SumPrice(items)
      pr       == applyPromoCode(code, subtotal)
      base     == subtotal - pr.discount
      fee      == IF base <= 0 THEN 100 ELSE 0
      total    == IF base <= 0 THEN 100 ELSE base
  IN NewOrder(u, items, None, 1, subtotal, fee, total, pr.code, pr.discount, linked, id)

(* createOrder: protect, duplicate filter, pending order, gateway order, link.  *)
(* gatewayOk = FALSE is razorpay.orders.create throwing: the order stays       *)
(* PENDING without a paymentOrderId.                                           *)
CreateOrder(u, items, code, gatewayOk) ==
  /\ Len(orders) < MaxOrders
  /\ ~users[u].isDeleted /\ ~users[u].isBanned
  /\ Range(items) \cap Owned(users[u]) = {}
  /\ applyPromoCode(code, SumPrice(items)).ok
  /\ LET id == Len(orders) + 1
         o  == createPendingOrderForUser(u, items, code, gatewayOk, id)
     IN orders' = Append(orders,
                    IF o.total < MIN_PAYABLE THEN [o EXCEPT !.status = "CANCELLED", !.paymentOrderId = 0]
                    ELSE o)
  /\ Deliver(procs) /\ UNCHANGED <<now, users, promo, isRunning, gateway, grants>>

createMembershipOrderForUser(u, plan, months, linked, id) ==
  LET duration == Max(1, Min(months, 12))
      subtotal == PlanPrice(plan) * duration
  IN NewOrder(u, <<>>, plan, duration, subtotal, 0, subtotal, None, 0, linked, id)

CreateMembershipOrder(u, plan, months, gatewayOk) ==
  /\ Len(orders) < MaxOrders
  /\ ~users[u].isDeleted /\ ~users[u].isBanned
  /\ ~(users[u].membership.planKey = plan /\ users[u].membership.status = "ACTIVE")
  /\ orders' = Append(orders, createMembershipOrderForUser(u, plan, months, gatewayOk, Len(orders) + 1))
  /\ Deliver(procs) /\ UNCHANGED <<now, users, promo, isRunning, gateway, grants>>

(* -------------------- the store's transaction rules ------------------- *)
TxnPcs == {"s_saveOrder", "s_promo", "s_user", "s_commit"}

InTxn(pr) == pr.pc \in TxnPcs

(* a document written by another open transaction is held until it ends *)
LockedOrder(o, p) ==
  \E q \in Procs \ {p} : InTxn(procs[q]) /\ procs[q].order = o /\ "order" \in procs[q].wrote

LockedUser(u, p) ==
  \E q \in Procs \ {p} : InTxn(procs[q]) /\ orders[procs[q].order].user = u
                          /\ "user" \in procs[q].wrote

LockedPromo(p) ==
  \E q \in Procs \ {p} : InTxn(procs[q]) /\ "promo" \in procs[q].wrote

(* a committed write makes the snapshot of every open transaction stale *)
Staled(P, os, us, pm) ==
  [q \in Procs |->
     IF InTxn(P[q])
     THEN [P[q] EXCEPT !.stale = @ \cup (IF P[q].order \in os THEN {"order"} ELSE {})
                                   \cup (IF orders[P[q].order].user \in us THEN {"user"} ELSE {})
                                   \cup (IF pm /\ orders[P[q].order].promoCode # None
                                         THEN {"promo"} ELSE {})]
     ELSE P[q]]

(* ------------- settlement: markOrderPaidAndGrantAccess ---------------- *)
abortTransaction_keepsOrder(p) ==
  [orders |-> [orders EXCEPT ![procs[p].order] =
                 IF "order" \in procs[p].wrote
                 THEN [@ EXCEPT !.status = "PAID", !.paymentId = procs[p].pid, !.completedAt = now]
                 ELSE @],
   users |-> users, promo |-> promo]

(* session.abortTransaction: none of the transaction's writes reach the store *)
abortTransaction(p) == [orders |-> orders, users |-> users, promo |-> promo]

(* what the caller does with a thrown settlement: verifyOrder hands it to    *)
(* next(err) (500); handlePaymentEvent goes on in its catch block            *)
SettleThrow(p, err) ==
  LET pr == procs[p]
      db == abortTransaction(p)
  IN /\ orders' = db.orders
     /\ users' = db.users
     /\ promo' = db.promo
     /\ Deliver([procs EXCEPT ![p] =
                    IF pr.kind = "verify" THEN Finish(pr, 500, err)
                    ELSE [pr EXCEPT !.pc = "w_saveFailed", !.err = err, !.sUser = NewUser,
                                    !.sPromoUsed = 0, !.stale = {}, !.wrote = {}]])
     /\ UNCHANGED <<now, isRunning, gateway, grants>>

alreadyPaid_never(status) == FALSE

(* the already-PAID short-circuit of markOrderPaidAndGrantAccess *)
alreadyPaid(status) == status = "PAID"

(* Order.findById in the session: the snapshot is taken here *)
SettleFindOrder(p) ==
  LET pr == procs[p]
      o  == pr.order
  IN /\ pr.pc = "s_findOrder"
     /\ IF alreadyPaid(orders[o].status)
        THEN /\ Deliver([procs EXCEPT ![p] = Finish(pr, 200, None)])
             /\ UNCHANGED <<now, orders, users, promo, isRunning, gateway, grants>>
        ELSE IF orders[o].status # "PENDING"
        THEN SettleThrow(p, "InvalidTransition")
        ELSE /\ Deliver([procs EXCEPT ![p] =
                            [pr EXCEPT !.pc = "s_saveOrder",
                                       !.sUser = users[orders[o].user],
                                       !.sPromoUsed = promo.usedCount,
                                       !.stale = {}, !.wrote = {}]])
             /\ UNCHANGED <<now, orders, users, promo, isRunning, gateway, grants>>

(* order.save({ session }) *)
SettleSaveOrder(p) ==
  LET pr == procs[p]
      o  == pr.order
  IN /\ pr.pc = "s_saveOrder"
     /\ IF "order" \in pr.stale \/ LockedOrder(o, p)
        THEN SettleThrow(p, "WriteConflict")
        ELSE /\ Deliver([procs EXCEPT ![p] =
                            [pr EXCEPT !.pc = IF orders[o].promoCode # None THEN "s_promo" ELSE "s_user",
                                       !.wrote = @ \cup {"order"}]])
             /\ UNCHANGED <<now, orders, users, promo, isRunning, gateway, grants>>

promoHasCapacity_unchecked(usageLimit, usedCount) == TRUE

(* the filter of updatePromoUsage, evaluated on the promo document *)
promoHasCapacity(usageLimit, usedCount) == usageLimit = 0 \/ usedCount < usageLimit

(* updatePromoUsage *)
SettlePromo(p) ==
  LET pr == procs[p]
  IN /\ pr.pc = "s_promo"
     /\ IF ~(promo.isActive /\ promoHasCapacity(promo.usageLimit, pr.sPromoUsed))
        THEN SettleThrow(p, "PromoLimit")
        ELSE IF "promo" \in pr.stale \/ LockedPromo(p)
        THEN SettleThrow(p, "WriteConflict")
        ELSE /\ Deliver([procs EXCEPT ![p] = [pr EXCEPT !.pc = "s_user", !.wrote = @ \cup {"promo"}]])
             /\ UNCHANGED <<now, orders, users, promo, isRunning, gateway, grants>>

(* activateMembership: the user document it saves *)
activateMembership(order, user) ==
  LET current  == user.membership
      isActive == /\ current.status = "ACTIVE"
                  /\ current.expiresAt # NoTime
                  /\ current.expiresAt > now
                  /\ current.planKey = order.membershipPlanKey
      baseDate == IF isActive THEN current.expiresAt ELSE now
  IN [user EXCEPT !.downloadsUsed = IF isActive THEN @ ELSE 0,
                  !.membership = [planKey |-> order.membershipPlanKey,
                                  status |-> "ACTIVE",
                                  expiresAt |-> baseDate + order.membershipMonths * MONTH]]

RECURSIVE newPurchases(_, _)
newPurchases(items, existing) ==
  IF items = <<>> THEN <<>>
  ELSE IF Head(items) \in existing THEN newPurchases(Tail(items), existing)
       ELSE <<[product |-> Head(items), source |-> "order"]>> \o newPurchases(Tail(items), existing)

(* grantProductAccess: the user document it saves *)
grantProductAccess(order, user) ==
  [user EXCEPT !.purchasedProducts = @ \o newPurchases(order.items, Owned(user))]

(* User.findById in the session, the user-state check, and the grant *)
SettleUser(p) ==
  LET pr    == procs[p]
      o     == pr.order
      user  == pr.sUser
      saved == IF orders[o].membershipPlanKey # None
               THEN activateMembership(orders[o], user)
               ELSE grantProductAccess(orders[o], user)
      saves == orders[o].membershipPlanKey # None
               \/ newPurchases(orders[o].items, Owned(user)) # <<>>
  IN /\ pr.pc = "s_user"
     /\ IF user.isDeleted \/ user.isBanned
        THEN SettleThrow(p, "InvalidUserState")
        ELSE IF saves /\ ("user" \in pr.stale \/ LockedUser(orders[o].user, p))
        THEN SettleThrow(p, "WriteConflict")
        ELSE /\ Deliver([procs EXCEPT ![p] =
                            [pr EXCEPT !.pc = "s_commit", !.sUser = saved,
                                       !.wrote = IF saves THEN @ \cup {"user"} ELSE @]])
             /\ UNCHANGED <<now, orders, users, promo, isRunning, gateway, grants>>

(* session.commitTransaction: the writes of the transaction reach the store *)
commitTransaction(p) ==
  LET pr == procs[p]
      o  == pr.order
  IN [orders |-> [orders EXCEPT ![o] = [@ EXCEPT !.status = "PAID",
                                                 !.paymentId = pr.pid,
                                                 !.paymentSignature = pr.kind,
                                                 !.paymentRaw = NoRaw,
                                                 !.completedAt = now]],
      users  |-> IF "user" \in pr.wrote
                 THEN [users EXCEPT ![orders[o].user] = pr.sUser] ELSE users,
      promo  |-> IF "promo" \in pr.wrote
                 THEN [promo EXCEPT !.usedCount = @ + 1] ELSE promo]

SettleCommit(p) ==
  LET pr == procs[p]
      o  == pr.order
      db == commitTransaction(p)
  IN /\ pr.pc = "s_commit"
     /\ orders' = db.orders
     /\ users' = db.users
     /\ promo' = db.promo
     /\ grants' = [grants EXCEPT ![o] = @ + 1]
     /\ Deliver(Staled([procs EXCEPT ![p] = Finish(pr, 200, None)],
                        {o},
                        IF "user" \in pr.wrote THEN {orders[o].user} ELSE {},
                        "promo" \in pr.wrote))
     /\ UNCHANGED <<now, isRunning, gateway>>

(* ----------------------- client-verify: verifyOrder ------------------- *)
Hmac(rid, pid) == <<rid, pid>>

Signatures == {Hmac(r, q) : r \in 1..MaxOrders, q \in PaymentIds} \cup {<<0, 0>>}

InMemory(o) == [status |-> orders[o].status, paymentId |-> orders[o].paymentId,
                paymentRaw |-> orders[o].paymentRaw]

(* protect and User.findById(authUserId) *)
VerifyStart(p, caller, o, pid) ==
  LET pr == [IdleProc EXCEPT !.kind = "verify", !.order = o, !.pid = pid, !.caller = caller]
  IN /\ Free(p)
     /\ o \in OrderIds
     /\ Deliver([procs EXCEPT ![p] =
                    IF users[caller].isDeleted THEN Finish(pr, 401, "Unauthorized")
                    ELSE IF users[caller].isBanned THEN Finish(pr, 403, "Banned")
                    ELSE [pr EXCEPT !.pc = "v_findOrder"]])
     /\ UNCHANGED <<now, orders, users, promo, isRunning, gateway, grants>>

verifyGate_noSignature(order, caller, rid, pid, sig) ==
  IF order.status = "PAID"
  THEN (IF order.paymentId = pid THEN [resp |-> 200, err |-> "AlreadyVerified"]
        ELSE [resp |-> 400, err |-> "DifferentPaymentId"])
  ELSE IF order.status # "PENDING" THEN [resp |-> 400, err |-> "NotPayable"]
  ELSE IF order.user # caller THEN [resp |-> 403, err |-> "NotYourOrder"]
  ELSE IF order.paymentOrderId # rid THEN [resp |-> 400, err |-> "OrderIdMismatch"]
  ELSE [resp |-> 0, err |-> None]

(* Order.findById, the status gate, the owner and signature checks *)
verifyGate(order, caller, rid, pid, sig) ==
  IF order.status = "PAID"
  THEN (IF order.paymentId = pid THEN [resp |-> 200, err |-> "AlreadyVerified"]
        ELSE [resp |-> 400, err |-> "DifferentPaymentId"])
  ELSE IF order.status # "PENDING" THEN [resp |-> 400, err |-> "NotPayable"]
  ELSE IF order.user # caller THEN [resp |-> 403, err |-> "NotYourOrder"]
  ELSE IF order.paymentOrderId # rid THEN [resp |-> 400, err |-> "OrderIdMismatch"]
  ELSE IF Hmac(rid, pid) # sig THEN [resp |-> 400, err |-> "InvalidSignature"]
  ELSE [resp |-> 0, err |-> None]

VerifyFindOrder(p, rid, sig) ==
  LET pr == procs[p]
      g  == verifyGate(orders[pr.order], pr.caller, rid, pr.pid, sig)
  IN /\ pr.pc = "v_findOrder"
     /\ Deliver([procs EXCEPT ![p] =
                    IF g.resp # 0 THEN Finish(pr, g.resp, g.err)
                    ELSE [pr EXCEPT !.pc = "s_findOrder"]])
     /\ UNCHANGED <<now, orders, users, promo, isRunning, gateway, grants>>

(* ------------------ webhook: razorpayWebhookHandler ------------------- *)
(* Order.findOne({ paymentOrderId }) *)
findByPaymentOrderId(rid) == {o \in OrderIds : orders[o].paymentOrderId = rid}

(* mongoose validation of the paths order.save() writes *)
orderValid(doc) == doc.status \in OrderStatusEnum /\ doc.cancelReason \in CancelReasonEnum \cup {None}

(* the gate at the top of initiateRefund, on the document it is handed *)
refundGate(doc) ==
  IF doc.paymentId = 0 THEN "MissingPaymentId"
  ELSE IF doc.status # "PAID" THEN "RefundNotAllowed"
  ELSE None

(* the response of a handler that ends by throwing: refundOrder and         *)
(* verifyOrder reach next(err); the promise handlePaymentEvent returns is   *)
(* not awaited inside the try of razorpayWebhookHandler, so nothing answers *)
Thrown(pr, err) == Finish(pr, IF pr.kind = "webhook" THEN 0 ELSE 500, err)

WebhookPayment(p, sigOk, event, rid, pid) ==
  LET pr    == [IdleProc EXCEPT !.kind = "webhook", !.pid = pid, !.caller = event]
      found == findByPaymentOrderId(rid)
      o     == CHOOSE x \in found : TRUE
      pro   == [pr EXCEPT !.order = o]
      doc   == [orders[o] EXCEPT !.status = "FAILED", !.cancelReason = "PAYMENT_FAILED"]
  IN /\ Free(p)
     /\ IF ~sigOk THEN
          /\ Deliver([procs EXCEPT ![p] = Finish(pr, 400, "InvalidSignature")])
          /\ UNCHANGED orders
        ELSE IF found = {} THEN
          /\ Deliver([procs EXCEPT ![p] = Finish(pr, 200, "OrderNotFound")])
          /\ UNCHANGED orders
        ELSE IF orders[o].status = "PAID" /\ event = "payment.captured" THEN
          /\ Deliver([procs EXCEPT ![p] = Finish(pro, 200, "AlreadyProcessed")])
          /\ UNCHANGED orders
        ELSE IF orders[o].status = "CANCELLED" THEN
          /\ Deliver([procs EXCEPT ![p] = Finish(pro, 200, "CancelledEarlier")])
          /\ UNCHANGED orders
        ELSE IF event = "payment.failed" THEN
          IF orders[o].status # "PENDING" THEN
            /\ Deliver([procs EXCEPT ![p] = Finish(pro, 200, "PaymentFailedHandled")])
            /\ UNCHANGED orders
          ELSE IF ~orderValid(doc) THEN
            /\ Deliver([procs EXCEPT ![p] = Thrown(pro, "ValidationError")])
            /\ UNCHANGED orders
          ELSE
            /\ ~LockedOrder(o, p)
            /\ orders' = [orders EXCEPT ![o] = doc]
            /\ Deliver(Staled([procs EXCEPT ![p] = Finish(pro, 200, "PaymentFailedHandled")],
                               {o}, {}, FALSE))
        ELSE IF orders[o].status # "PENDING" THEN
          /\ Deliver([procs EXCEPT ![p] = Finish(pro, 200, "OrderNotPending")])
          /\ UNCHANGED orders
        ELSE
          /\ Deliver([procs EXCEPT ![p] = [pro EXCEPT !.pc = "s_findOrder", !.loc = InMemory(o)]])
          /\ UNCHANGED orders
     /\ UNCHANGED <<now, users, promo, isRunning, gateway, grants>>

(* the catch block of handlePaymentEvent: order.save() of the document read *)
(* before settlement, then initiateRefund(order) on that same document      *)
WebhookSaveFailed(p) ==
  LET pr  == procs[p]
      o   == pr.order
      doc == [pr.loc EXCEPT !.status = "FAILED"]
      g   == refundGate(doc)
  IN /\ pr.pc = "w_saveFailed"
     /\ ~LockedOrder(o, p)
     /\ orders' = [orders EXCEPT ![o] = [@ EXCEPT !.status = "FAILED",
                                                  !.cancelReason = "SYSTEM_CANCELLED"]]
     /\ Deliver(Staled([procs EXCEPT ![p] =
                           IF g # None THEN Thrown(pr, g)
                           ELSE [pr EXCEPT !.pc = "r_lock", !.loc = doc]],
                        {o}, {}, FALSE))
     /\ UNCHANGED <<now, users, promo, isRunning, gateway, grants>>

(* ------------------------- refund: initiateRefund --------------------- *)
refundLockFilter_any(order) == TRUE

(* the filter of the pre-lock: Order.findOneAndUpdate({ _id, status: "PAID" }, ...) *)
refundLockFilter(order) == order.status = "PAID"

(* the pre-lock of initiateRefund: PAID -> REFUND_INITIATED *)
RefundLock(p) ==
  LET pr == procs[p]
      o  == pr.order
      g  == refundGate(pr.loc)
  IN /\ pr.pc = "r_lock"
     /\ IF g # None THEN
          /\ Deliver([procs EXCEPT ![p] = Thrown(pr, g)])
          /\ UNCHANGED orders
        ELSE IF ~refundLockFilter(orders[o]) THEN
          /\ Deliver([procs EXCEPT ![p] = Thrown(pr, "RefundInProgress")])
          /\ UNCHANGED orders
        ELSE
          /\ ~LockedOrder(o, p)
          /\ orders' = [orders EXCEPT ![o] = [@ EXCEPT !.status = "REFUND_INITIATED"]]
          /\ Deliver(Staled([procs EXCEPT ![p] = [pr EXCEPT !.pc = "r_api",
                                                             !.loc = [InMemory(o) EXCEPT !.status = "REFUND_INITIATED"]]],
                             {o}, {}, FALSE))
     /\ UNCHANGED <<now, users, promo, isRunning, gateway, grants>>

(* razorpay.payments.refund: the gateway accepts the refund or the call throws *)
RefundApi(p, ok) ==
  LET pr == procs[p]
      o  == pr.order
  IN /\ pr.pc = "r_api"
     /\ ok \/ orders[o].paymentRaw.refundErrors < MaxRefundErrors
     /\ gateway' = [gateway EXCEPT ![o] = [refundCalls |-> @.refundCalls + 1,
                                           refundsOk |-> @.refundsOk + (IF ok THEN 1 ELSE 0)]]
     /\ Deliver([procs EXCEPT ![p] = [pr EXCEPT !.pc = IF ok THEN "r_saveOk" ELSE "r_rollback"]])
     /\ UNCHANGED <<now, orders, users, promo, isRunning, grants>>

(* locked.save() after the gateway accepted: only paymentRaw is written *)
RefundSaveOk(p) ==
  LET pr == procs[p]
      o  == pr.order
  IN /\ pr.pc = "r_saveOk"
     /\ ~LockedOrder(o, p)
     /\ orders' = [orders EXCEPT ![o] = [@ EXCEPT !.paymentRaw =
                                            [pr.loc.paymentRaw EXCEPT !.refundRequest = TRUE]]]
     /\ Deliver(Staled([procs EXCEPT ![p] = Finish(pr, 200, "RefundInitiated")], {o}, {}, FALSE))
     /\ UNCHANGED <<now, users, promo, isRunning, gateway, grants>>

refundRollback_keepsLock(order) ==
  [order EXCEPT !.paymentRaw = [@ EXCEPT !.refundErrors = @ + 1]]

(* the rollback of initiateRefund: Order.updateOne({ _id }, status PAID, push refundErrors) *)
refundRollback(order) ==
  [order EXCEPT !.status = "PAID", !.paymentRaw = [@ EXCEPT !.refundErrors = @ + 1]]

RefundRollback(p) ==
  LET pr == procs[p]
      o  == pr.order
  IN /\ pr.pc = "r_rollback"
     /\ ~LockedOrder(o, p)
     /\ orders' = [orders EXCEPT ![o] = refundRollback(@)]
     /\ Deliver(Staled([procs EXCEPT ![p] = Thrown(pr, "RefundApiFailed")], {o}, {}, FALSE))
     /\ UNCHANGED <<now, users, promo, isRunning, gateway, grants>>

(* ---------------------- admin refund: refundOrder --------------------- *)
AdminRefundStart(p, o) ==
  LET pr == [IdleProc EXCEPT !.kind = "adminRefund", !.order = o]
  IN /\ Free(p)
     /\ o \in OrderIds
     /\ Deliver([procs EXCEPT ![p] =
                    IF orders[o].status # "PAID" THEN Finish(pr, 400, "RefundNotAllowed")
                    ELSE IF orders[o].paymentId = 0 THEN Finish(pr, 400, "MissingPaymentId")
                    ELSE [pr EXCEPT !.pc = "r_revoke", !.idx = 1, !.loc = InMemory(o)]])
     /\ UNCHANGED <<now, orders, users, promo, isRunning, gateway, grants>>

(* revokeOrderAccess: one User.updateOne per step *)
revokeOrderAccess(order, user, i) ==
  IF order.membershipPlanKey # None
  THEN [user EXCEPT !.membership = [@ EXCEPT !.status = "REFUNDED", !.expiresAt = now]]
  ELSE [user EXCEPT !.purchasedProducts = SeqFilterOut(@, order.items[i])]

Revoke(p) ==
  LET pr == procs[p]
      o  == pr.order
      u  == orders[o].user
      last == orders[o].membershipPlanKey # None \/ pr.idx >= Len(orders[o].items)
  IN /\ pr.pc = "r_revoke"
     /\ ~LockedUser(u, p)
     /\ users' = [users EXCEPT ![u] = revokeOrderAccess(orders[o], @, pr.idx)]
     /\ Deliver(Staled([procs EXCEPT ![p] =
                           IF last THEN [pr EXCEPT !.pc = "r_lock", !.idx = 0]
                           ELSE [pr EXCEPT !.idx = @ + 1]],
                        {}, {u}, FALSE))
     /\ UNCHANGED <<now, orders, promo, isRunning, gateway, grants>>

(* ------------------- webhook: handleRefundEvent ----------------------- *)
findByPaymentId(pid) == {o \in OrderIds : orders[o].paymentId = pid}

RefundEvent(p, sigOk, pid) ==
  LET pr    == [IdleProc EXCEPT !.kind = "refundEvent", !.pid = pid]
      found == findByPaymentId(pid)
      o     == CHOOSE x \in found : \A y \in found : x <= y
      pro   == [pr EXCEPT !.order = o]
  IN /\ Free(p)
     /\ Deliver([procs EXCEPT ![p] =
                    IF ~sigOk THEN Finish(pr, 400, "InvalidSignature")
                    ELSE IF found = {} THEN Finish(pr, 200, "OrderNotFound")
                    ELSE IF orders[o].status = "REFUNDED" THEN Finish(pro, 200, "AlreadyRefunded")
                    ELSE IF orders[o].status # "PAID" THEN Finish(pro, 200, "RefundIgnored")
                    ELSE [pro EXCEPT !.pc = "re_save", !.loc = InMemory(o)]])
     /\ UNCHANGED <<now, orders, users, promo, isRunning, gateway, grants>>

(* order.save() of handleRefundEvent: status and paymentRaw of the document read *)
RefundEventSave(p) ==
  LET pr == procs[p]
      o  == pr.order
  IN /\ pr.pc = "re_save"
     /\ ~LockedOrder(o, p)
     /\ orders' = [orders EXCEPT ![o] = [@ EXCEPT !.status = "REFUNDED",
                                                  !.paymentRaw = [pr.loc.paymentRaw EXCEPT !.refundCompleted = TRUE]]]
     /\ Deliver(Staled([procs EXCEPT ![p] = Finish(pr, 200, "RefundCompleted")], {o}, {}, FALSE))
     /\ UNCHANGED <<now, users, promo, isRunning, gateway, grants>>

(* ------------------------- access to what was bought ------------------ *)
(* userHasPurchasedProduct: a PAID order of the user holds the product *)
userHasPurchasedProduct(u, product) ==
  \E o \in OrderIds : /\ orders[o].user = u
                      /\ orders[o].status = "PAID"
                      /\ product \in Range(orders[o].items)

(* checkAccess of a non-admin: hasViaOrders || hasViaUserCache *)
checkAccess(u, product) ==
  userHasPurchasedProduct(u, product) \/ product \in Owned(users[u])

(* getActiveMembership: the plan the user holds now, or None *)
getActiveMembership(user) ==
  IF user.isDeleted THEN None
  ELSE IF user.membership.planKey = None \/ user.membership.status # "ACTIVE"
          \/ user.membership.expiresAt = NoTime THEN None
  ELSE IF user.membership.expiresAt <= now THEN None
  ELSE user.membership.planKey

(* ----------------------- download: getDownloadUrl --------------------- *)
(* protect and loadAndValidateUser: the user document the handler works on *)
DownloadStart(p, u, product) ==
  LET pr == [IdleProc EXCEPT !.kind = "download", !.caller = u, !.product = product]
  IN /\ Free(p)
     /\ Deliver([procs EXCEPT ![p] =
                    IF users[u].isDeleted THEN Finish(pr, 401, "Unauthorized")
                    ELSE IF users[u].isBanned THEN Finish(pr, 403, "Banned")
                    ELSE [pr EXCEPT !.pc = "d_access", !.sUser = users[u]]])
     /\ UNCHANGED <<now, orders, users, promo, isRunning, gateway, grants>>

(* the plan's maxDownloadsPerMonth: null (unlimited, the schema default) for *)
(* BASIC, a number for PREMIUM                                               *)
NoLimit == -1

maxDownloadsPerMonth(k) == IF k = "PREMIUM" THEN DownloadLimit ELSE NoLimit

(* checkAccess (the orders are queried, the library is the loaded document) *)
(* and the membership and limit checks of handleMembershipDownload; inside  *)
(* one calendar month resetUsageIfNewMonth returns the usage it was given   *)
DownloadAccess(p) ==
  LET pr == procs[p]
      hasAccess == \/ userHasPurchasedProduct(pr.caller, pr.product)
                   \/ pr.product \in Owned(pr.sUser)
      planKey == getActiveMembership(pr.sUser)
      limit == maxDownloadsPerMonth(planKey)
      used  == pr.sUser.downloadsUsed
  IN /\ pr.pc = "d_access"
     /\ Deliver([procs EXCEPT ![p] =
                    IF hasAccess THEN Finish(pr, 200, "HasAccess")
                    ELSE IF planKey = None THEN Finish(pr, 403, "NO_MEMBERSHIP")
                    ELSE IF limit # NoLimit /\ used >= limit THEN Finish(pr, 403, "LIMIT_REACHED")
                    ELSE [pr EXCEPT !.pc = "d_update", !.idx = used]])
     /\ UNCHANGED <<now, orders, users, promo, isRunning, gateway, grants>>

(* the update of handleMembershipDownload: $set membershipUsage and         *)
(* $addToSet of a subdocument with a fresh purchasedAt and _id, which no    *)
(* stored element equals                                                    *)
membershipDownload(user, product, used) ==
  [user EXCEPT !.downloadsUsed = used + 1,
               !.purchasedProducts = Append(@, [product |-> product, source |-> "membership"])]

(* User.updateOne({ _id, "membershipUsage.downloadsUsed": used }, ...) *)
DownloadUpdate(p) ==
  LET pr == procs[p]
      u  == pr.caller
      matched == users[u].downloadsUsed = pr.idx
  IN /\ pr.pc = "d_update"
     /\ ~LockedUser(u, p)
     /\ users' = IF matched THEN [users EXCEPT ![u] = membershipDownload(@, pr.product, pr.idx)]
                 ELSE users
     /\ Deliver(Staled([procs EXCEPT ![p] = Finish(pr, 200, "Download")],
                        {}, IF matched THEN {u} ELSE {}, FALSE))
     /\ UNCHANGED <<now, orders, promo, isRunning, gateway, grants>>

(* ------------------- reaper: autoCancelPendingOrders ------------------ *)
reaperMatches_linkedOnly(order) ==
  /\ order.status = "PENDING"
  /\ order.createdAt <= now - TWO_MINUTES
  /\ order.paymentId = 0
  /\ order.paymentOrderId # 0

reaperMatches_anyAge(order) ==
  /\ order.status = "PENDING"
  /\ order.paymentId = 0

(* the filter of the sweep's Order.updateMany *)
reaperMatches(order) ==
  /\ order.status = "PENDING"
  /\ order.createdAt <= now - TWO_MINUTES
  /\ order.paymentId = 0

ReaperRun ==
  LET hit == {o \in OrderIds : reaperMatches(orders[o])}
  IN /\ ~isRunning
     /\ hit # {}
     /\ \A o \in hit : ~LockedOrder(o, 0)
     /\ orders' = [o \in OrderIds |->
                     IF o \in hit
                     THEN [orders[o] EXCEPT !.status = "CANCELLED",
                                            !.cancelReason = "PAYMENT_TIMEOUT",
                                            !.completedAt = now]
                     ELSE orders[o]]
     /\ Deliver(Staled(procs, hit, {}, FALSE))
     /\ UNCHANGED <<now, users, promo, isRunning, gateway, grants>>

(* the reaper cut at its await: a cron tick enters autoCancelPendingOrders,  *)
(* and a run that got past the two guards waits for Order.updateMany        *)
reaperMayStart_noOverlapGuard(connected, running) == connected

(* the connectivity guard and the overlap guard *)
reaperMayStart(connected, running) == connected /\ ~running

ReaperTick(p, connected) ==
  LET pr == [IdleProc EXCEPT !.kind = "reaper"]
  IN /\ Free(p)
     /\ IF reaperMayStart(connected, isRunning)
        THEN /\ isRunning' = TRUE
             /\ Deliver([procs EXCEPT ![p] = [pr EXCEPT !.pc = "rp_update"]])
        ELSE /\ UNCHANGED isRunning
             /\ Deliver([procs EXCEPT ![p] =
                            Finish(pr, 0, IF ~connected THEN "SkippedNotConnected"
                                          ELSE "SkippedStillRunning")])
     /\ UNCHANGED <<now, orders, users, promo, gateway, grants>>

(* Order.updateMany resolves (ok) or rejects, then the finally block *)
ReaperUpdate(p, ok) ==
  LET pr  == procs[p]
      hit == IF ok THEN {o \in OrderIds : reaperMatches(orders[o])} ELSE {}
  IN /\ pr.pc = "rp_update"
     /\ \A o \in hit : ~LockedOrder(o, p)
     /\ orders' = [o \in OrderIds |->
                     IF o \in hit
                     THEN [orders[o] EXCEPT !.status = "CANCELLED",
                                            !.cancelReason = "PAYMENT_TIMEOUT",
                                            !.completedAt = now]
                     ELSE orders[o]]
     /\ isRunning' = FALSE
     /\ Deliver(Staled([procs EXCEPT ![p] = Finish(pr, 0, IF ok THEN "Swept" ELSE "SweepFailed")],
                        hit, {}, FALSE))
     /\ UNCHANGED <<now, users, promo, gateway, grants>>

(* ------------------------------ environment --------------------------- *)
Tick ==
  /\ now < MaxTime
  /\ now' = now + 1
  /\ Deliver(procs) /\ UNCHANGED <<orders, users, promo, isRunning, gateway, grants>>

(* adminToggleBan *)
AdminToggleBan(u) ==
  /\ ~users[u].isDeleted
  /\ ~LockedUser(u, 0)
  /\ users' = [users EXCEPT ![u] = [@ EXCEPT !.isBanned = ~@]]
  /\ Deliver(Staled(procs, {}, {u}, FALSE))
  /\ UNCHANGED <<now, orders, promo, isRunning, gateway, grants>>

(* --------------------- membership self-service and admin -------------- *)
(* cancelMembership: ACTIVE -> CANCELLED, the expiry stays *)
CancelMembership(u) ==
  /\ ~users[u].isDeleted
  /\ users[u].membership.planKey # None
  /\ users[u].membership.status = "ACTIVE"
  /\ ~LockedUser(u, 0)
  /\ users' = [users EXCEPT ![u].membership.status = "CANCELLED"]
  /\ Deliver(Staled(procs, {}, {u}, FALSE))
  /\ UNCHANGED <<now, orders, promo, isRunning, gateway, grants>>

(* resumeMembership: CANCELLED or EXPIRED -> ACTIVE, the expiry stays *)
ResumeMembership(u) ==
  /\ ~users[u].isDeleted
  /\ users[u].membership.planKey # None
  /\ users[u].membership.status \in {"CANCELLED", "EXPIRED"}
  /\ ~LockedUser(u, 0)
  /\ users' = [users EXCEPT ![u].membership.status = "ACTIVE"]
  /\ Deliver(Staled(procs, {}, {u}, FALSE))
  /\ UNCHANGED <<now, orders, promo, isRunning, gateway, grants>>

(* adminExtendMembership: the membership it saves, for an extension of      *)
(* blocks * 30 days                                                         *)
adminExtendMembership(user, blocks) ==
  LET membership == user.membership
      base == IF membership.expiresAt # NoTime /\ membership.expiresAt > now
              THEN membership.expiresAt ELSE now
  IN [user EXCEPT !.membership = [membership EXCEPT !.status = "ACTIVE",
                                                     !.expiresAt = base + blocks * THIRTY_DAYS]]

AdminExtendMembership(u, blocks) ==
  /\ ~users[u].isDeleted
  /\ ~LockedUser(u, 0)
  /\ adminExtendMembership(users[u], blocks).membership.expiresAt <= MaxExpiry
  /\ users' = [users EXCEPT ![u] = adminExtendMembership(@, blocks)]
  /\ Deliver(Staled(procs, {}, {u}, FALSE))
  /\ UNCHANGED <<now, orders, promo, isRunning, gateway, grants>>

(* a request that gets past its first gate: a request answered in its first *)
(* step changes no document                                                  *)
Admitted(p) == procs'[p].pc # "idle"

(* ---- the whole system: every operation, on up to MaxOrdersAll orders ---- *)
Next ==
  \/ \E u \in Buyers, items \in ItemLists, code \in PromoCodes \cup {None}, ok \in BOOLEAN :
        Len(orders) < MaxOrdersAll /\ CreateOrder(u, items, code, ok)
  \/ \E u \in Buyers, k \in PlanKeys, ok \in BOOLEAN :
        Len(orders) < MaxOrdersAll /\ CreateMembershipOrder(u, k, 1, ok)
  \/ \E p \in Procs, c \in Buyers, o \in 1..MaxOrders, pid \in PaymentIds :
        VerifyStart(p, c, o, pid) /\ Admitted(p)
  \/ \E p \in Procs : VerifyFindOrder(p, procs[p].order, Hmac(procs[p].order, procs[p].pid)) /\ Admitted(p)
  \/ \E p \in Procs : SettleFindOrder(p)
  \/ \E p \in Procs : SettleSaveOrder(p)
  \/ \E p \in Procs : SettlePromo(p)
  \/ \E p \in Procs : SettleUser(p)
  \/ \E p \in Procs : SettleCommit(p)
  \/ \E p \in Procs, rid \in 1..MaxOrders, pid \in PaymentIds :
        WebhookPayment(p, TRUE, "payment.captured", rid, pid) /\ Admitted(p)
  \/ \E p \in Procs : WebhookSaveFailed(p)
  \/ \E p \in Procs, o \in 1..MaxOrders : AdminRefundStart(p, o) /\ Admitted(p)
  \/ \E p \in Procs : Revoke(p)
  \/ \E p \in Procs : RefundLock(p)
  \/ \E p \in Procs, ok \in BOOLEAN : RefundApi(p, ok)
  \/ \E p \in Procs : RefundSaveOk(p)
  \/ \E p \in Procs : RefundRollback(p)
  \/ \E p \in Procs, pid \in PaymentIds : RefundEvent(p, TRUE, pid) /\ Admitted(p)
  \/ \E p \in Procs : RefundEventSave(p)
  \/ ReaperRun
  \/ Tick
  \/ \E u \in Buyers : AdminToggleBan(u)

Spec == Init /\ [][Next]_vars

(* ---- settlement alone: orders are created and paid through both paths; ---- *)
(* the client verifies payment 1, the gateway reports payment MaxPay *)
NextSettle ==
  \/ \E u \in Buyers, items \in ItemLists, code \in PromoCodes \cup {None} :
        CreateOrder(u, items, code, TRUE)
  \/ \E u \in Buyers, k \in PlanKeys : CreateMembershipOrder(u, k, 1, TRUE)
  \/ \E p \in Procs, c \in Buyers, o \in 1..MaxOrders :
        VerifyStart(p, c, o, 1) /\ Admitted(p)
  \/ \E p \in Procs : VerifyFindOrder(p, procs[p].order, Hmac(procs[p].order, procs[p].pid)) /\ Admitted(p)
  \/ \E p \in Procs : SettleFindOrder(p)
  \/ \E p \in Procs : SettleSaveOrder(p)
  \/ \E p \in Procs : SettlePromo(p)
  \/ \E p \in Procs : SettleUser(p)
  \/ \E p \in Procs : SettleCommit(p)
  \/ \E p \in Procs, rid \in 1..MaxOrders :
        WebhookPayment(p, TRUE, "payment.captured", rid, MaxPay) /\ Admitted(p)
  \/ \E p \in Procs : WebhookSaveFailed(p)
  \/ \E u \in Buyers : AdminToggleBan(u)

SpecSettle == Init /\ [][NextSettle]_vars

(* ---- the reaper beside order creation and client-verify settlement ---- *)
NextReaper ==
  \/ \E u \in Buyers, items \in ItemLists, ok \in BOOLEAN : CreateOrder(u, items, None, ok)
  \/ \E u \in Buyers, k \in PlanKeys : CreateMembershipOrder(u, k, 1, TRUE)
  \/ \E p \in Procs, c \in Buyers, o \in 1..MaxOrders :
        VerifyStart(p, c, o, 1) /\ Admitted(p)
  \/ \E p \in Procs : VerifyFindOrder(p, procs[p].order, Hmac(procs[p].order, procs[p].pid)) /\ Admitted(p)
  \/ \E p \in Procs : SettleFindOrder(p)
  \/ \E p \in Procs : SettleSaveOrder(p)
  \/ \E p \in Procs : SettleUser(p)
  \/ \E p \in Procs : SettleCommit(p)
  \/ ReaperRun
  \/ Tick

SpecReaper == Init /\ [][NextReaper]_vars

(* ---- the webhook alone: every delivery of a payment event is answered, ---- *)
(* with a good or a bad signature, for a known or an unknown gateway order   *)
WebhookEvents == {"payment.captured", "payment.failed"}

NextWebhook ==
  \/ \E u \in Buyers, items \in ItemLists, code \in PromoCodes \cup {None} :
        CreateOrder(u, items, code, TRUE)
  \/ \E p \in Procs, sigOk \in BOOLEAN, event \in WebhookEvents, rid \in 1..MaxOrders :
        WebhookPayment(p, sigOk, event, rid, MaxPay)
  \/ \E p \in Procs : SettleFindOrder(p)
  \/ \E p \in Procs : SettleSaveOrder(p)
  \/ \E p \in Procs : SettlePromo(p)
  \/ \E p \in Procs : SettleUser(p)
  \/ \E p \in Procs : SettleCommit(p)
  \/ \E p \in Procs : WebhookSaveFailed(p)
  \/ \E u \in Buyers : AdminToggleBan(u)

SpecWebhook == Init /\ [][NextWebhook]_vars

(* ---- order creation alone, over the promo documents, products and plans ---- *)
(* the store can hold                                                          *)
PricingPromos ==
  PromoDocs \cup
  { [LegacyPromo EXCEPT !.discountValue = 4000],
    [LegacyPromo EXCEPT !.discountValue = 500000],
    [LegacyPromo EXCEPT !.discountType = "PERCENTAGE", !.discountValue = 15],
    [LegacyPromo EXCEPT !.discountType = "PERCENTAGE", !.discountValue = 100],
    [LegacyPromo EXCEPT !.discountType = "PERCENTAGE", !.discountValue = 50, !.maxDiscount = 1500] }

PricingItemLists == ItemLists \cup {<<"f">>, <<"a", "f">>}

PricingPlans == PlanKeys \cup {"FREE"}

InitPricing ==
  /\ now = 0
  /\ orders = <<>>
  /\ users = [u \in Users |-> NewUser]
  /\ promo \in PricingPromos
  /\ procs = [p \in Procs |-> IdleProc]
  /\ out = NoOut
  /\ isRunning = FALSE
  /\ gateway = [o \in 1..MaxOrders |-> [refundCalls |-> 0, refundsOk |-> 0]]
  /\ grants = [o \in 1..MaxOrders |-> 0]

NextPricing ==
  \/ \E u \in Buyers, items \in PricingItemLists, code \in PromoCodes \cup {None}, ok \in BOOLEAN :
        CreateOrder(u, items, code, ok)
  \/ \E u \in Buyers, k \in PricingPlans, months \in 1..MaxMonths, ok \in BOOLEAN :
        CreateMembershipOrder(u, k, months, ok)

SpecPricing == InitPricing /\ [][NextPricing]_vars

(* ---- promo preview next to checkout: the code is previewed and orders   ---- *)
(* are created with it, for promo documents as the admin API stores them     *)
(* (discountPercent, discountFlat, maxDiscount) and for documents carrying   *)
(* the discountType / discountValue fields that checkout reads               *)
SchemaPromo ==
  [discountType |-> None, discountValue |-> 0, discountPercent |-> 0,
   discountFlat |-> 0, maxDiscount |-> 0, minOrderAmount |-> 0,
   usageLimit |-> UsageLimit, usedCount |-> 0, isActive |-> TRUE]

PreviewPromos ==
  PricingPromos \cup
  { [SchemaPromo EXCEPT !.discountPercent = 15],
    [SchemaPromo EXCEPT !.discountPercent = 50, !.maxDiscount = 1500],
    [SchemaPromo EXCEPT !.discountPercent = 10, !.discountFlat = 500, !.maxDiscount = 2000],
    [SchemaPromo EXCEPT !.discountFlat = 500000, !.maxDiscount = 500000],
    [SchemaPromo EXCEPT !.discountFlat = 1000, !.maxDiscount = 1000, !.minOrderAmount = 5000],
    [LegacyPromo EXCEPT !.discountFlat = 1000, !.maxDiscount = 1000] }

InitPreview ==
  /\ now = 0
  /\ orders = <<>>
  /\ users = [u \in Users |-> NewUser]
  /\ promo \in PreviewPromos
  /\ procs = [p \in Procs |-> IdleProc]
  /\ out = NoOut
  /\ isRunning = FALSE
  /\ gateway = [o \in 1..MaxOrders |-> [refundCalls |-> 0, refundsOk |-> 0]]
  /\ grants = [o \in 1..MaxOrders |-> 0]

NextPreview ==
  \/ \E u \in Buyers, items \in PricingItemLists, code \in PromoCodes \cup {None} :
        CreateOrder(u, items, code, TRUE)
  \/ \E items \in PricingItemLists, code \in PromoCodes \cup {None} : ApplyPromo(code, items)

SpecPreview == InitPreview /\ [][NextPreview]_vars

(* ---- client-verify alone: any authenticated user submits any order id, ---- *)
(* gateway order id, payment id and signature                                 *)
NextVerify ==
  \/ \E u \in Buyers, items \in ItemLists : CreateOrder(u, items, None, TRUE)
  \/ \E p \in Procs, c \in Users, o \in 1..MaxOrders, pid \in PaymentIds :
        VerifyStart(p, c, o, pid)
  \/ \E p \in Procs, rid \in 1..MaxOrders, sig \in Signatures : VerifyFindOrder(p, rid, sig)
  \/ \E p \in Procs : SettleFindOrder(p)
  \/ \E p \in Procs : SettleSaveOrder(p)
  \/ \E p \in Procs : SettleUser(p)
  \/ \E p \in Procs : SettleCommit(p)

SpecVerify == Init /\ [][NextVerify]_vars

(* ---- memberships: bought, settled by client-verify, cancelled, resumed, ---- *)
(* extended by an admin, refunded, while the clock advances                    *)
NextMembership ==
  \/ \E u \in Buyers, k \in PlanKeys, months \in 1..MaxMonths :
        CreateMembershipOrder(u, k, months, TRUE)
  \/ \E p \in Procs, c \in Buyers, o \in 1..MaxOrders :
        VerifyStart(p, c, o, 1) /\ Admitted(p)
  \/ \E p \in Procs : VerifyFindOrder(p, procs[p].order, Hmac(procs[p].order, procs[p].pid)) /\ Admitted(p)
  \/ \E p \in Procs : SettleFindOrder(p)
  \/ \E p \in Procs : SettleSaveOrder(p)
  \/ \E p \in Procs : SettleUser(p)
  \/ \E p \in Procs : SettleCommit(p)
  \/ \E u \in Buyers : CancelMembership(u)
  \/ \E u \in Buyers : ResumeMembership(u)
  \/ \E u \in Buyers : AdminExtendMembership(u, 1)
  \/ \E p \in Procs, o \in 1..MaxOrders : AdminRefundStart(p, o) /\ Admitted(p)
  \/ \E p \in Procs : Revoke(p)
  \/ \E p \in Procs : RefundLock(p)
  \/ \E p \in Procs : RefundApi(p, TRUE)
  \/ \E p \in Procs : RefundSaveOk(p)
  \/ Tick

SpecMembership == Init /\ [][NextMembership]_vars

(* ---- the library: products bought and products downloaded on a membership ---- *)
NextLibrary ==
  \/ \E u \in Buyers, items \in ItemLists : CreateOrder(u, items, None, TRUE)
  \/ \E u \in Buyers, k \in PlanKeys : CreateMembershipOrder(u, k, 1, TRUE)
  \/ \E p \in Procs, c \in Buyers, o \in 1..MaxOrders :
        VerifyStart(p, c, o, 1) /\ Admitted(p)
  \/ \E p \in Procs : VerifyFindOrder(p, procs[p].order, Hmac(procs[p].order, procs[p].pid)) /\ Admitted(p)
  \/ \E p \in Procs : SettleFindOrder(p)
  \/ \E p \in Procs : SettleSaveOrder(p)
  \/ \E p \in Procs : SettleUser(p)
  \/ \E p \in Procs : SettleCommit(p)
  \/ \E p \in Procs, u \in Buyers : DownloadStart(p, u, "a") /\ Admitted(p)
  \/ \E p \in Procs : DownloadAccess(p) /\ Admitted(p)
  \/ \E p \in Procs : DownloadUpdate(p)

SpecLibrary == Init /\ [][NextLibrary]_vars

(* ---- the download quota: a member of a plan with a monthly limit asks ---- *)
(* for products concurrently, within one calendar month                     *)
NextQuota ==
  \/ \E u \in Buyers : CreateMembershipOrder(u, "PREMIUM", 1, TRUE)
  \/ \E p \in Procs, c \in Buyers, o \in 1..MaxOrders :
        VerifyStart(p, c, o, 1) /\ Admitted(p)
  \/ \E p \in Procs : VerifyFindOrder(p, procs[p].order, Hmac(procs[p].order, procs[p].pid)) /\ Admitted(p)
  \/ \E p \in Procs : SettleFindOrder(p)
  \/ \E p \in Procs : SettleSaveOrder(p)
  \/ \E p \in Procs : SettleUser(p)
  \/ \E p \in Procs : SettleCommit(p)
  \/ \E p \in Procs, u \in Buyers, product \in Products : DownloadStart(p, u, product) /\ Admitted(p)
  \/ \E p \in Procs : DownloadAccess(p)
  \/ \E p \in Procs : DownloadUpdate(p)

SpecQuota == Init /\ [][NextQuota]_vars

(* ---- reaper runs, cut at the await, beside creation and settlement ---- *)
NextReaperRuns ==
  \/ \E u \in Buyers, items \in ItemLists, ok \in BOOLEAN : CreateOrder(u, items, None, ok)
  \/ \E p \in Procs, c \in Buyers, o \in 1..MaxOrders :
        VerifyStart(p, c, o, 1) /\ Admitted(p)
  \/ \E p \in Procs : VerifyFindOrder(p, procs[p].order, Hmac(procs[p].order, procs[p].pid)) /\ Admitted(p)
  \/ \E p \in Procs : SettleFindOrder(p)
  \/ \E p \in Procs : SettleSaveOrder(p)
  \/ \E p \in Procs : SettleUser(p)
  \/ \E p \in Procs : SettleCommit(p)
  \/ \E p \in Procs, connected \in BOOLEAN : ReaperTick(p, connected)
  \/ \E p \in Procs, ok \in BOOLEAN : ReaperUpdate(p, ok)
  \/ Tick

SpecReaperRuns == Init /\ [][NextReaperRuns]_vars

(* ---- refunds: an order is paid, refunded by an admin, and the gateway ---- *)
(* confirms refunds with refund.processed                                    *)
NextRefund ==
  \/ \E u \in Buyers, items \in ItemLists :
        Len(orders) < MaxOrdersAll /\ CreateOrder(u, items, None, TRUE)
  \/ \E p \in Procs, c \in Buyers, o \in 1..MaxOrders :
        VerifyStart(p, c, o, 1) /\ Admitted(p)
  \/ \E p \in Procs : VerifyFindOrder(p, procs[p].order, Hmac(procs[p].order, procs[p].pid)) /\ Admitted(p)
  \/ \E p \in Procs : SettleFindOrder(p)
  \/ \E p \in Procs : SettleSaveOrder(p)
  \/ \E p \in Procs : SettleUser(p)
  \/ \E p \in Procs : SettleCommit(p)
  \/ \E p \in Procs, o \in 1..MaxOrders : AdminRefundStart(p, o) /\ Admitted(p)
  \/ \E p \in Procs : Revoke(p)
  \/ \E p \in Procs : RefundLock(p)
  \/ \E p \in Procs, ok \in BOOLEAN : RefundApi(p, ok)
  \/ \E p \in Procs : RefundSaveOk(p)
  \/ \E p \in Procs : RefundRollback(p)
  \/ \E p \in Procs, pid \in PaymentIds : RefundEvent(p, TRUE, pid)
  \/ \E p \in Procs : RefundEventSave(p)

SpecRefund == Init /\ [][NextRefund]_vars

(* ---- idle orders: orders are created while the clock can still advance, ---- *)
(* paid by client-verify or left alone; the cron keeps ticking, the clock     *)
(* keeps advancing and every handler that was started goes on                 *)
NextIdle ==
  \/ \E u \in Buyers, items \in ItemLists, ok \in BOOLEAN :
        now < MaxTime /\ CreateOrder(u, items, None, ok)
  \/ \E u \in Buyers, k \in PlanKeys, ok \in BOOLEAN :
        now < MaxTime /\ CreateMembershipOrder(u, k, 1, ok)
  \/ \E p \in Procs, c \in Buyers, o \in 1..MaxOrders :
        VerifyStart(p, c, o, 1) /\ Admitted(p)
  \/ \E p \in Procs : VerifyFindOrder(p, procs[p].order, Hmac(procs[p].order, procs[p].pid)) /\ Admitted(p)
  \/ \E p \in Procs : SettleFindOrder(p)
  \/ \E p \in Procs : SettleSaveOrder(p)
  \/ \E p \in Procs : SettleUser(p)
  \/ \E p \in Procs : SettleCommit(p)
  \/ ReaperRun
  \/ Tick

SpecIdle ==
  /\ Init /\ [][NextIdle]_vars
  /\ WF_vars(Tick)
  /\ SF_vars(ReaperRun)
  /\ \A p \in Procs : WF_vars(SettleFindOrder(p) \/ SettleSaveOrder(p) \/ SettleUser(p) \/ SettleCommit(p))

(* ---- signatures: both entries to settlement, with good and bad signatures ---- *)
NextSignature ==
  \/ \E u \in Buyers, items \in ItemLists : CreateOrder(u, items, None, TRUE)
  \/ \E p \in Procs, c \in Buyers, o \in 1..MaxOrders : VerifyStart(p, c, o, 1)
  \/ \E p \in Procs, rid \in 1..MaxOrders, sig \in Signatures : VerifyFindOrder(p, rid, sig)
  \/ \E p \in Procs : SettleFindOrder(p)
  \/ \E p \in Procs : SettleSaveOrder(p)
  \/ \E p \in Procs : SettleUser(p)
  \/ \E p \in Procs : SettleCommit(p)
  \/ \E p \in Procs, sigOk \in BOOLEAN, rid \in 1..MaxOrders :
        WebhookPayment(p, sigOk, "payment.captured", rid, MaxPay)
  \/ \E p \in Procs : WebhookSaveFailed(p)

SpecSignature == Init /\ [][NextSignature]_vars

(* ---- captured payments: the gateway reports payment.captured for orders ---- *)
(* that may have been swept, carry a used-up promo or belong to a banned     *)
(* user; every handler that was started goes on                              *)
NextCaptured ==
  \/ \E u \in Buyers, items \in ItemLists, code \in PromoCodes \cup {None} :
        CreateOrder(u, items, code, TRUE)
  \/ \E p \in Procs, rid \in 1..MaxOrders :
        WebhookPayment(p, TRUE, "payment.captured", rid, MaxPay)
  \/ \E p \in Procs : SettleFindOrder(p)
  \/ \E p \in Procs : SettleSaveOrder(p)
  \/ \E p \in Procs : SettlePromo(p)
  \/ \E p \in Procs : SettleUser(p)
  \/ \E p \in Procs : SettleCommit(p)
  \/ \E p \in Procs : WebhookSaveFailed(p)
  \/ \E u \in Buyers : AdminToggleBan(u)
  \/ ReaperRun
  \/ Tick

SpecCaptured ==
  /\ Init /\ [][NextCaptured]_vars
  /\ \A p \in Procs :
       WF_vars(SettleFindOrder(p) \/ SettleSaveOrder(p) \/ SettlePromo(p) \/ SettleUser(p)
               \/ SettleCommit(p) \/ WebhookSaveFailed(p))

(* ====================== properties of settlement ====================== *)
(* the entitlement of order o is on its owner's document *)
Entitled(o) ==
  IF orders[o].membershipPlanKey # None
  THEN /\ users[orders[o].user].membership.planKey = orders[o].membershipPlanKey
       /\ users[orders[o].user].membership.status = "ACTIVE"
  ELSE /\ Range(orders[o].items) \subseteq Owned(users[orders[o].user])
       /\ \A i, j \in 1..Len(users[orders[o].user].purchasedProducts) :
             users[orders[o].user].purchasedProducts[i].product
               = users[orders[o].user].purchasedProducts[j].product => i = j

(* no handler is working on order o *)
Quiet(o) == \A p \in Procs : procs[p].order # o

(* C1: however many settlement calls run on an order, the PENDING -> PAID   *)
(* transition and the grant of its entitlement happen at most once, every   *)
(* transition to PAID comes with exactly one grant, and a call that finds   *)
(* the order PAID returns success and changes no order, user or promo.      *)
C1_SettleOnce ==
  [][\A o \in OrderIds :
       /\ grants'[o] # grants[o] =>
            /\ orders[o].status = "PENDING" /\ orders'[o].status = "PAID"
            /\ grants[o] = 0 /\ grants'[o] = 1
            /\ Entitled(o)'
       /\ (orders[o].status # "PAID" /\ orders'[o].status = "PAID") => grants'[o] = grants[o] + 1
       /\ \A p \in Procs :
            (/\ procs[p].pc = "s_findOrder" /\ procs[p].order = o
             /\ orders[o].status = "PAID" /\ procs'[p] # procs[p])
            => /\ orders' = orders /\ users' = users /\ promo' = promo /\ grants' = grants
               /\ out'.order = o /\ out'.resp = 200
    ]_vars

(* C1 witness: an order paid by one path, a call of the other path has just *)
(* returned success on it, and it was granted once                          *)
C1_Witness ==
  /\ out.kind \in {"verify", "webhook"} /\ out.resp = 200
  /\ out.order \in OrderIds
  /\ orders[out.order].status = "PAID"
  /\ orders[out.order].paymentSignature \notin {None, out.kind}
  /\ grants[out.order] = 1

(* C2: when the webhook payment.captured handler and the client-verify      *)
(* handler race on one PENDING order, once both have finished the order is  *)
(* PAID and its entitlement was granted exactly once, whichever of the two  *)
(* settled it (client-verify settled it, or client-verify finished last).   *)
C2_RaceEndsPaid ==
  \A o \in OrderIds :
    (/\ grants[o] >= 1
     /\ Quiet(o)
     /\ \/ orders[o].paymentSignature = "verify"
        \/ out.kind = "verify" /\ out.order = o)
    => /\ orders[o].status = "PAID"
       /\ grants[o] = 1
       /\ Entitled(o)

(* C3: a settlement call that throws leaves every order, user and promo     *)
(* document as it was before the call, and no order is PAID without its     *)
(* entitlement.                                                             *)
C3_ThrowChangesNothing ==
  /\ [](\A o \in OrderIds : orders[o].status = "PAID" => Entitled(o))
  /\ [][\A p \in Procs :
          (/\ procs[p].pc \in TxnPcs \cup {"s_findOrder"}
           /\ \/ procs'[p].pc = "w_saveFailed"
              \/ procs'[p].pc = "idle" /\ out'.resp = 500)
          => /\ orders' = orders /\ users' = users /\ promo' = promo /\ grants' = grants
     ]_vars

(* C3 witness: settlement of a promo order has thrown on the user check,    *)
(* after its order save and promo increment, and nothing of it is stored    *)
C3_Witness ==
  \E p \in Procs :
    /\ procs[p].pc = "w_saveFailed" /\ procs[p].err = "InvalidUserState"
    /\ orders[procs[p].order].promoCode # None
    /\ orders[procs[p].order].status = "PENDING"
    /\ orders[procs[p].order].paymentId = 0
    /\ orders[procs[p].order].completedAt = NoTime
    /\ promo.usedCount = 0
    /\ users[orders[procs[p].order].user].purchasedProducts = <<>>

(* C4: when settlement throws in the webhook payment.captured handler, the  *)
(* handler ends with the order FAILED / SYSTEM_CANCELLED and a refund of    *)
(* the payment requested from the gateway.                                  *)
C4_FailedAndRefundRequested ==
  (out.kind = "webhook" /\ out.err # None)
  => /\ orders[out.order].status = "FAILED"
     /\ orders[out.order].cancelReason = "SYSTEM_CANCELLED"
     /\ gateway[out.order].refundCalls >= 1

(* C5: a promo with usageLimit > 0 never has usedCount above usageLimit,    *)
(* under any interleaving of the settlements that carry it.                 *)
C5_PromoWithinLimit ==
  promo.usageLimit > 0 => promo.usedCount <= promo.usageLimit

(* C5 witness: the promo is used up and a settlement has just been refused  *)
(* by the capacity filter                                                   *)
C5_Witness ==
  /\ promo.usageLimit > 0 /\ promo.usedCount = promo.usageLimit
  /\ out.err = "PromoLimit"
  /\ orders[out.order].status = "PENDING"

(* C6: of the settlements of orders carrying a promo with limit N, the      *)
(* promo step refuses one only with the promo-limit error and only once N   *)
(* settlements have incremented usedCount; the refused order stays PENDING. *)
C6_OnlyLimitRefuses ==
  [][\A p \in Procs :
       (/\ procs[p].pc = "s_promo"
        /\ procs'[p].pc \notin {"s_promo", "s_user"})
       => /\ (procs'[p].err = "PromoLimit" \/ out'.err = "PromoLimit")
          /\ promo.usedCount = promo.usageLimit
          /\ orders'[procs[p].order].status = "PENDING"
    ]_vars

(* ================== properties of the order life cycle ================ *)
StatusEdges ==
  {<<"PENDING", "PAID">>, <<"PENDING", "FAILED">>, <<"PENDING", "CANCELLED">>,
   <<"PAID", "REFUND_INITIATED">>, <<"REFUND_INITIATED", "REFUNDED">>,
   <<"REFUND_INITIATED", "PAID">>}

(* C7: every change of an order's status follows PENDING -> PAID / FAILED / *)
(* CANCELLED, PAID -> REFUND_INITIATED, REFUND_INITIATED -> REFUNDED or     *)
(* REFUND_INITIATED -> PAID; so PAID never turns FAILED or CANCELLED, and   *)
(* FAILED, CANCELLED and REFUNDED are never left.                           *)
C7_StatusEdges ==
  [][\A o \in OrderIds :
       orders'[o].status # orders[o].status
       => <<orders[o].status, orders'[o].status>> \in StatusEdges
    ]_vars

(* the calls of initiateRefund that hold the lock on order o *)
RefundHolders(o) ==
  {p \in Procs : procs[p].order = o /\ procs[p].pc \in {"r_api", "r_saveOk", "r_rollback"}}

C9_RollbackToPaid ==
  [][\A p \in Procs :
       (procs[p].pc = "r_rollback" /\ procs'[p] # procs[p])
       => LET o == procs[p].order
          IN /\ orders'[o].status = "PAID"
             /\ orders'[o].paymentRaw.refundErrors = orders[o].paymentRaw.refundErrors + 1
             /\ out'.order = o /\ out'.resp = 500 /\ out'.err = "RefundApiFailed"
             /\ refundGate(orders'[o]) = None
             /\ refundLockFilter(orders'[o])
    ]_vars

(* C9 witness: after a failed refund call was rolled back, a later          *)
(* initiateRefund on the order has taken the lock                           *)
C9_Witness ==
  \E p \in Procs :
    /\ procs[p].pc = "r_api"
    /\ orders[procs[p].order].paymentRaw.refundErrors >= 1
    /\ orders[procs[p].order].status = "REFUND_INITIATED"

(* the owner of order o can reach nothing the order granted *)
NoAccess(o) ==
  IF orders[o].membershipPlanKey # None
  THEN getActiveMembership(users[orders[o].user]) # orders[o].membershipPlanKey
  ELSE \A i \in 1..Len(orders[o].items) : ~checkAccess(orders[o].user, orders[o].items[i])

(* C10: in refundOrder the entitlement is revoked before the gateway is     *)
(* called, and when refundOrder has ended, the refund accepted or failed    *)
(* and rolled back, the owner has no access to what the order granted.      *)
C10_NoAccessAfterRefund ==
  /\ \A p \in Procs :
       (procs[p].kind = "adminRefund" /\ procs[p].pc = "r_api") => NoAccess(procs[p].order)
  /\ (out.kind = "adminRefund" /\ out.err \in {"RefundInitiated", "RefundApiFailed"})
       => NoAccess(out.order)

(* ========================= properties of the reaper =================== *)
(* C11: the reaper never cancels an order while a settlement of that order  *)
(* is in flight, so no interleaving of a sweep with                         *)
(* markOrderPaidAndGrantAccess ends with the order CANCELLED.               *)
C11_NoCancelDuringSettlement ==
  [][\A o \in OrderIds :
       (orders[o].status # "CANCELLED" /\ orders'[o].status = "CANCELLED")
       => ~\E p \in Procs : procs[p].order = o /\ InTxn(procs[p])
    ]_vars

(* what one sweep has to do to an order, spelled out on the stored document *)
SweepDue(o) ==
  /\ orders[o].status = "PENDING"
  /\ orders[o].createdAt + TWO_MINUTES <= now
  /\ orders[o].paymentId = 0

(* C12: a sweep sets status CANCELLED and cancelReason PAYMENT_TIMEOUT on    *)
(* exactly the orders that are PENDING, at least two minutes old and        *)
(* without a paymentId, and leaves every other order and every user as it   *)
(* was.                                                                     *)
C12_SweepFrame ==
  [][(\E o \in OrderIds : /\ orders[o].cancelReason # "PAYMENT_TIMEOUT"
                          /\ orders'[o].cancelReason = "PAYMENT_TIMEOUT")
     => /\ Len(orders') = Len(orders)
        /\ \A o \in OrderIds :
             orders'[o] = IF SweepDue(o)
                          THEN [orders[o] EXCEPT !.status = "CANCELLED",
                                                 !.cancelReason = "PAYMENT_TIMEOUT",
                                                 !.completedAt = now]
                          ELSE orders[o]
        /\ users' = users /\ promo' = promo
    ]_vars

(* C12 witness: a sweep has cancelled an idle order and left alone an order *)
(* that was paid before the sweep                                           *)
C12_Witness ==
  \E a, b \in OrderIds :
    /\ orders[a].status = "CANCELLED" /\ orders[a].cancelReason = "PAYMENT_TIMEOUT"
    /\ orders[b].status = "PAID" /\ orders[b].completedAt < orders[a].completedAt

(* ========================= properties of the webhook ================== *)
(* C13: once the signature of a webhook delivery is accepted the handler    *)
(* answers 200, for every event type and order state, also when settlement, *)
(* the order save or the refund call throws.                                *)
C13_WebhookAnswers200 ==
  (out.kind = "webhook" /\ out.err # "InvalidSignature") => out.resp = 200

(* ========================= properties of pricing ====================== *)
(* C14: every stored order satisfies                                        *)
(* subtotal + tax - promoDiscount + convenienceFee = total, also when the   *)
(* discount equals the subtotal and the convenience fee is forced.          *)
C14_TotalsAddUp ==
  \A o \in OrderIds :
    orders[o].subtotal + orders[o].tax - orders[o].promoDiscount + orders[o].convenienceFee
      = orders[o].total

(* C14 witness: an order whose discount ate the whole subtotal is stored    *)
(* with the forced convenience fee of one rupee as its total                *)
C14_Witness ==
  \E o \in OrderIds :
    /\ orders[o].subtotal > 0 /\ orders[o].promoDiscount = orders[o].subtotal
    /\ orders[o].convenienceFee = 100 /\ orders[o].total = 100

(* C15: no stored order has total <= 0: when subtotal + tax - discount <= 0 *)
(* the order carries convenienceFee = 1 rupee and total = 1 rupee, and      *)
(* otherwise convenienceFee = 0; for product and membership orders alike.   *)
C15_NeverZeroPayable ==
  \A o \in OrderIds :
    /\ orders[o].total > 0
    /\ IF orders[o].subtotal + orders[o].tax - orders[o].promoDiscount <= 0
       THEN orders[o].convenienceFee = 100 /\ orders[o].total = 100
       ELSE orders[o].convenienceFee = 0

(* ======================= properties of client-verify ================== *)
(* C16: verifyOrder answers success only when the authenticated caller is   *)
(* the owner of the order, whatever the status of the order.                *)
C16_SuccessOnlyForOwner ==
  [][\A p \in Procs :
       (/\ procs[p].kind = "verify" /\ procs[p].pc # "idle"
        /\ procs'[p].pc = "idle" /\ out'.resp = 200)
       => orders[procs[p].order].user = procs[p].caller
    ]_vars

(* C17: verifyOrder never answers success for an order whose stored         *)
(* paymentId differs from the submitted razorpayPaymentId, under any        *)
(* interleaving with the webhook.                                           *)
C17_SuccessOnlyForStoredPayment ==
  [][\A p \in Procs :
       (/\ procs[p].kind = "verify" /\ procs[p].pc # "idle"
        /\ procs'[p].pc = "idle" /\ out'.resp = 200)
       => orders'[procs[p].order].paymentId = procs[p].pid
    ]_vars

(* ========================= properties of memberships ================== *)
(* C18: when a membership order is settled the new expiry is the later of   *)
(* now and the user's previous expiry, plus membershipMonths months, so no  *)
(* remaining paid time is lost (checked where the user already holds the   *)
(* plan the order buys).                                                    *)
C18_RenewalKeepsRemainingTime ==
  [][\A p \in Procs :
       (/\ procs[p].pc = "s_user" /\ procs'[p].pc = "s_commit"
        /\ orders[procs[p].order].membershipPlanKey # None
        /\ orders[procs[p].order].membershipPlanKey = procs[p].sUser.membership.planKey)
       => procs'[p].sUser.membership.expiresAt
            = Max(now, procs[p].sUser.membership.expiresAt)
              + orders[procs[p].order].membershipMonths * MONTH
    ]_vars

(* C19: a user whose membership status is ACTIVE has an expiry later than   *)
(* the current time, in every reachable state.                              *)
C19_ActiveMeansUnexpired ==
  \A u \in Users :
    users[u].membership.status = "ACTIVE" => users[u].membership.expiresAt > now

ReaperRuns == {p \in Procs : procs[p].kind = "reaper" /\ procs[p].pc = "rp_update"}

(* C21: at most one reaper run is at its bulk update at any time; the flag  *)
(* isRunning is set exactly while a run is in progress, so every exit of a  *)
(* run clears it; a tick that finds a run in progress or the database       *)
(* disconnected touches no order and not the flag.                          *)
C21_OneReaperRun ==
  /\ [](Cardinality(ReaperRuns) <= 1 /\ (isRunning <=> ReaperRuns # {}))
  /\ [][out'.err \in {"SkippedNotConnected", "SkippedStillRunning"}
         => orders' = orders /\ users' = users /\ isRunning' = isRunning
     ]_vars

(* C21 witness: a tick was skipped because a run waits for its update,      *)
(* while an order due for the sweep is still PENDING                        *)
C21_Witness ==
  /\ out.kind = "reaper" /\ out.err = "SkippedStillRunning"
  /\ ReaperRuns # {} /\ isRunning
  /\ \E o \in OrderIds : reaperMatches(orders[o])

(* C22: a payment.failed delivery for an order that is still PENDING stores *)
(* the order with status FAILED and cancelReason PAYMENT_FAILED and asks    *)
(* for no refund; for an order in any other status it changes nothing.      *)
C22_PaymentFailedStored ==
  [][\A o \in OrderIds :
       (/\ out'.kind = "webhook" /\ out'.order = o
        /\ out'.err \in {"PaymentFailedHandled", "ValidationError"})
       => /\ gateway' = gateway
          /\ IF orders[o].status = "PENDING"
             THEN /\ orders'[o].status = "FAILED"
                  /\ orders'[o].cancelReason = "PAYMENT_FAILED"
             ELSE orders' = orders
    ]_vars

(* ========================= properties of refunds ====================== *)
(* C23: REFUND_INITIATED is transient: when the gateway has accepted the    *)
(* refund of an order, initiateRefund has returned, and the gateway then    *)
(* delivers refund.processed for its payment, the handler leaves the order  *)
(* REFUNDED.                                                                *)
C23_RefundProcessedCompletes ==
  [][\A o \in OrderIds :
       (/\ out'.kind = "refundEvent" /\ out'.order = o /\ out'.resp = 200
        /\ orders[o].status = "REFUND_INITIATED"
        /\ gateway[o].refundsOk >= 1 /\ Quiet(o))
       => orders'[o].status = "REFUNDED"
    ]_vars

(* C24: every order that is created PENDING and is not settled, also one    *)
(* whose gateway order creation threw, is CANCELLED in the end, as long as  *)
(* the reaper keeps ticking.                                                *)
C24_IdleOrderCancelled ==
  \A o \in 1..MaxOrders :
    (IF o \in OrderIds THEN orders[o].status = "PENDING" ELSE FALSE)
      ~> (IF o \in OrderIds THEN orders[o].status \in {"PAID", "CANCELLED"} ELSE FALSE)

(* C24 witness: an order whose gateway order creation threw was cancelled   *)
(* by the sweep                                                             *)
C24_Witness ==
  \E o \in OrderIds :
    /\ orders[o].paymentOrderId = 0 /\ orders[o].total >= MIN_PAYABLE
    /\ orders[o].status = "CANCELLED" /\ orders[o].cancelReason = "PAYMENT_TIMEOUT"

(* ========================= properties of signatures =================== *)
(* C25: a client-verify request whose signature is not                      *)
(* HMAC(razorpayOrderId|razorpayPaymentId) and a webhook delivery whose     *)
(* signature does not match end there, refused when the order is PENDING,   *)
(* and change no order, user or grant; a handler enters                     *)
(* markOrderPaidAndGrantAccess only in a step that passed the signature     *)
(* check.                                                                   *)
C25_SignatureBeforeSettlement ==
  [][/\ \A p \in Procs, rid \in 1..MaxOrders, sig \in Signatures :
          (VerifyFindOrder(p, rid, sig) /\ sig # Hmac(rid, procs[p].pid))
          => /\ procs'[p].pc = "idle"
             /\ orders[procs[p].order].status = "PENDING" => out'.resp \in {400, 403}
             /\ orders' = orders /\ users' = users /\ grants' = grants
     /\ \A p \in Procs, rid \in 1..MaxOrders, pid \in PaymentIds :
          WebhookPayment(p, FALSE, "payment.captured", rid, pid)
          => /\ procs'[p].pc = "idle" /\ out'.resp = 400
             /\ orders' = orders /\ users' = users /\ grants' = grants
     /\ \A p \in Procs :
          (procs[p].pc # "s_findOrder" /\ procs'[p].pc = "s_findOrder")
          => \/ \E rid \in 1..MaxOrders : VerifyFindOrder(p, rid, Hmac(rid, procs[p].pid))
             \/ \E rid \in 1..MaxOrders, pid \in PaymentIds :
                   WebhookPayment(p, TRUE, "payment.captured", rid, pid)
    ]_vars

(* C25 witness: a client-verify request with a wrong signature was refused  *)
(* and its order is still PENDING, without a grant                          *)
C25_Witness ==
  /\ out.kind = "verify" /\ out.err = "InvalidSignature" /\ out.resp = 400
  /\ orders[out.order].status = "PENDING" /\ grants[out.order] = 0

(* ===================== properties of captured payments ================ *)
(* the gateway has reported the captured payment of order o *)
Reported(o) ==
  \/ \E p \in Procs : procs[p].kind = "webhook" /\ procs[p].order = o
  \/ out.kind = "webhook" /\ out.order = o

(* C26: for every order whose captured payment was reported through         *)
(* payment.captured, in the end the order is PAID with its entitlement      *)
(* granted or a refund of the payment was requested from the gateway.       *)
C26_CapturedIsDeliveredOrRefunded ==
  \A o \in 1..MaxOrders :
    (IF o \in OrderIds THEN Reported(o) ELSE FALSE)
      ~> (IF o \in OrderIds
          THEN \/ orders[o].status = "PAID" /\ Entitled(o)
               \/ gateway[o].refundCalls >= 1
          ELSE FALSE)

(* ======================= properties of the promo preview ============== *)
(* C27: for every active promo code and every product set, the preview      *)
(* answers with a discountAmount exactly when order creation accepts the    *)
(* code for the same products, and the order is stored with that amount as  *)
(* its promoDiscount.                                                       *)
C27_PreviewEqualsCheckout ==
  [][\A code \in PromoCodes, items \in PricingItemLists :
       LET pv == applyPromo(code, items)
           co == applyPromoCode(code, SumPrice(items))
       IN /\ ApplyPromo(code, items)
               => IF out'.resp = 200 THEN co.ok /\ co.discount = pv.discountAmount
                  ELSE ~co.ok
          /\ (\E u \in Buyers : CreateOrder(u, items, code, TRUE))
               => pv.ok /\ orders'[Len(orders')].promoDiscount = pv.discountAmount]_vars

(* ===================== properties of repeated purchases =============== *)
(* C28: a user never has two PAID orders that contain the same product,     *)
(* for any interleaving of order creation, settlement and the reaper.       *)
C28_NoTwoPaidOrders ==
  \A o1, o2 \in OrderIds :
    (/\ o1 # o2 /\ orders[o1].user = orders[o2].user
     /\ orders[o1].status = "PAID" /\ orders[o2].status = "PAID")
    => Range(orders[o1].items) \cap Range(orders[o2].items) = {}

HoldsTimeBesides(u, o) ==
  \E o2 \in OrderIds \ {o} :
    /\ orders[o2].user = u /\ orders[o2].membershipPlanKey # None
    /\ orders[o2].status = "PAID" /\ orders[o2].completedAt # NoTime
    /\ orders[o2].completedAt + orders[o2].membershipMonths * MONTH > now

(* C30: when the admin refund of a PAID membership order revokes access,    *)
(* an ACTIVE user who holds unexpired membership time from another,         *)
(* non-refunded membership order keeps an ACTIVE, unexpired membership.     *)
C30_RefundKeepsOtherOrders ==
  [][\A p \in Procs :
       LET o == procs[p].order
           u == orders[o].user
       IN (/\ procs[p].kind = "adminRefund" /\ procs[p].pc = "r_revoke"
           /\ Revoke(p)
           /\ orders[o].membershipPlanKey # None
           /\ users[u].membership.status = "ACTIVE"
           /\ users[u].membership.expiresAt > now
           /\ HoldsTimeBesides(u, o))
          => /\ users'[u].membership.status = "ACTIVE"
             /\ users'[u].membership.expiresAt > now]_vars

====
